---- MODULE Spec2Model ----
(***************************************************************************)
(* Model of connect-db2 (lib/connect-db2.js): a session store that maps    *)
(* get/set/destroy/touch/length/clear/close/createDatabaseTable/           *)
(* dropDatabaseTable onto SQL statements against one table, held behind a  *)
(* single shared connection.  Every store method dispatches its statement  *)
(* and returns; the database executes the statement and the driver runs    *)
(* the callback in a later step, so calls of independent callers           *)
(* interleave between a dispatch and its reply.                            *)
(***************************************************************************)
EXTENDS Integers, FiniteSets, Sequences, TLC

\* ------------------------------------------------------------------ bounds

\* Total number of store method calls started in one behaviour.
MaxCalls == 2

\* Independent callers (each runs one store method at a time) and session ids.
Procs == {"p1", "p2"}
Ids == {"a", "b"}

\* ------------------------------------------------------- program constants

\* var oneDay = 86400;
oneDay == 86400

\* defaultOptions.expiration: oneDay * 30
DefaultExpiration == oneDay * 30

\* defaultOptions.allowDrop: false
DefaultAllowDrop == FALSE

\* ------------------------------------------------------------------ values

\* A value of cookie.expires / cookie._expires: a missing property, a Date,
\* a number of milliseconds, or an ISO date string; ms is its time value.
NoValue == [type |-> "absent", ms |-> 0]
DateOf(t) == [type |-> "date", ms |-> t]
NumOf(t) == [type |-> "num", ms |-> t]
StrOf(t) == [type |-> "str", ms |-> t]

\* Session objects handed to set and touch.
Sess(hasCookie, e, u) ==
    [cookie |-> hasCookie, expires |-> e, _expires |-> u, circular |-> FALSE]

NoCookieSess == Sess(FALSE, NoValue, NoValue)
BareCookieSess == Sess(TRUE, NoValue, NoValue)
DateSess == Sess(TRUE, DateOf(2500), DateOf(1499))
NumSess == Sess(TRUE, NoValue, NumOf(1499))

Sessions == {NoCookieSess, BareCookieSess, DateSess, NumSess}

\* A session object that refers to itself.
CircularSess == [BareCookieSess EXCEPT !.circular = TRUE]

\* Readings of Date.now(), in milliseconds.
Nows == {1000, 1700}

\* The inputs of one set or touch call: the session and the clock reading
\* (getExpires reads the clock only when the session carries no expiry).
CallInputs ==
    {<<s, n>> \in Sessions \X Nows : s = NoCookieSess \/ n = 1000}

\* The inputs of one set call: set also serializes the session.
SetInputs == CallInputs \cup {<<CircularSess, 1000>>}

\* Values of the optional configuration fields handed to the constructor.
ExpirationOptions == {[given |-> FALSE, ms |-> 0], [given |-> TRUE, ms |-> 1500]}
AllowDropOptions == {[given |-> FALSE, on |-> FALSE],
                     [given |-> TRUE, on |-> FALSE],
                     [given |-> TRUE, on |-> TRUE]}

\* ------------------------------------------------------------ pure functions

\* JavaScript truthiness of an expiry value: a missing property and the
\* number 0 are falsy, every Date and every non-empty string is truthy.
Truthy(v) == v.type # "absent" /\ ~(v.type = "num" /\ v.ms = 0)

\* Math.round(x / 1000) for an integer x: the nearest integer, halves up.
MathRoundDiv1000(x) == (x + 500) \div 1000

\* Variant of getExpires that returns the millisecond time value unrounded.
getExpiresMillis(sess, expiration, now) ==
    IF sess.cookie /\ Truthy(sess.expires) THEN sess.expires.ms
    ELSE IF sess.cookie /\ Truthy(sess._expires) THEN sess._expires.ms
    ELSE now + expiration

\* getExpires(sess, expiration), with now the value of Date.now().
getExpires(sess, expiration, now) ==
    LET picked == IF sess.cookie /\ Truthy(sess.expires) THEN sess.expires.ms
                  ELSE IF sess.cookie /\ Truthy(sess._expires) THEN sess._expires.ms
                  ELSE now + expiration
    IN  MathRoundDiv1000(picked)

\* JSON.stringify of one property value: a Date is written by its toJSON
\* as an ISO string; numbers, strings and missing properties stay.
ToJSONValue(v) == IF v.type = "date" THEN StrOf(v.ms) ELSE v

\* The text of the data column: valid JSON is represented by the value it
\* denotes, any other text by valid = FALSE.
CorruptData == [valid |-> FALSE, json |-> NoCookieSess]

\* Variant of JSON.stringify that would keep a Date a Date.
JSONstringifyKeepDate(sess) == [valid |-> TRUE, json |-> sess]

\* JSON.stringify(sess).
JSONstringify(sess) ==
    [valid |-> TRUE,
     json |-> Sess(sess.cookie, ToJSONValue(sess.expires), ToJSONValue(sess._expires))]

\* JSON.parse(text): ok = FALSE stands for the SyntaxError it throws.
JSONparse(data) == [ok |-> data.valid, value |-> data.json]

\* ------------------------------------------------------------------- state

VARIABLES
    options,      \* the merged configuration: [expiration, allowDrop]
    store,        \* the constructor's outcome: [status, client, emitted]
    connected,    \* store.client.connected
    tableExists,  \* whether the sessions table exists in the database
    table,        \* the rows of the table: [session_id, expires, data]
    pc,           \* per caller: where its current call stands
    call,         \* per caller: the arguments and closure variables of its call
                  \* (nq: statements dispatched; follows: a get that was
                  \* called after an undisturbed set of its id completed;
                  \* log: what close did, in order; qerr, count: the
                  \* answer to set's count query; sentClosed: a statement
                  \* was dispatched while the client was not connected)
    cb,           \* per caller: the invocations of the continuation fn
    calls,        \* number of calls started so far
    disturbed,    \* per caller: a delete hit the id of its set while it ran
    cleanSet,     \* per id: the session of the last undisturbed successful set
    cleared       \* a clear succeeded and no set has completed since

vars == <<options, store, connected, tableExists, table, pc, call, cb, calls,
          disturbed, cleanSet, cleared>>

\* Errors handed to a continuation.
NoErr == [kind |-> "none", sid |-> ""]
DriverErr == [kind |-> "driver", sid |-> ""]
ConstraintErr == [kind |-> "constraint", sid |-> ""]
ConfigErr == [kind |-> "config", sid |-> ""]
ParseErr(sid) == [kind |-> "parse", sid |-> sid]
SerializeErr == [kind |-> "serialize", sid |-> ""]

\* Results handed to a continuation.
NoRes == [kind |-> "none", sess |-> NoCookieSess, count |-> 0]
NullRes == [kind |-> "null", sess |-> NoCookieSess, count |-> 0]
SessRes(s) == [kind |-> "session", sess |-> s, count |-> 0]
CountRes(n) == [kind |-> "count", sess |-> NoCookieSess, count |-> n]

NoCb == [n |-> 0, err |-> NoErr, res |-> NoRes]
NoCall == [op |-> "none", sid |-> "", sess |-> NoCookieSess, now |-> 0,
           expires |-> 0, jsess |-> CorruptData, sql |-> "", nq |-> 0,
           follows |-> FALSE, log |-> <<>>, qerr |-> FALSE, count |-> 0,
           sentClosed |-> FALSE]
NoClean == [has |-> FALSE, sess |-> NoCookieSess]

Row(sid, expires, data) == [session_id |-> sid, expires |-> expires, data |-> data]

\* Tables the database may hold when the store is constructed: the table is
\* shared with other writers, so a row may carry text that is not JSON.
InitialTables ==
    {{}, {Row("a", 1, CorruptData)}, {Row("b", 3, JSONstringify(NumSess))}}

\* extend(true, {}, defaultOptions, options || {})
MergeOptions(e, d) ==
    [expiration |-> IF e.given THEN e.ms ELSE DefaultExpiration,
     allowDrop |-> IF d.given THEN d.on ELSE DefaultAllowDrop]

\* The store before its constructor ran, and the store the constructor
\* returns: the client is there and nothing has been emitted on it yet by
\* the methods below.
NewStore == [status |-> "new", client |-> FALSE, emitted |-> "none"]
BuiltStore == [status |-> "built", client |-> TRUE, emitted |-> "none"]

\* The state after new Db2Store(options, connection) returned: both
\* assertions of the constructor passed, so the client is connected.
Init ==
    /\ \E e \in ExpirationOptions, d \in AllowDropOptions :
           options = MergeOptions(e, d)
    /\ store = BuiltStore
    /\ connected = TRUE
    /\ tableExists \in BOOLEAN
    /\ table \in (IF tableExists THEN InitialTables ELSE {{}})
    /\ pc = [p \in Procs |-> "idle"]
    /\ call = [p \in Procs |-> NoCall]
    /\ cb = [p \in Procs |-> NoCb]
    /\ calls = 0
    /\ disturbed = [p \in Procs |-> FALSE]
    /\ cleanSet = [i \in Ids |-> NoClean]
    /\ cleared = FALSE

\* ------------------------------------------------------------ the constructor

\* The connection argument of the constructor: none, a connected handle or
\* a handle that is not connected; and what ibmdb.openSync(dsn) does when no
\* connection is supplied: it returns such a handle or throws.
SuppliedConnections == {"none", "connected", "closed"}
OpenOutcomes == {"connected", "closed", "throws"}

\* Variant of the constructor's assertions without the one on connected.
ConstructorAssertsClientOnly(hasClient, isConnected) == hasClient

\* assert(this.client); assert(this.client.connected);
ConstructorAsserts(hasClient, isConnected) == hasClient /\ isConnected

\* new Db2Store(options, connection): the supplied connection is taken as
\* the client; without one openSync's handle is, with 'connect' emitted, or
\* 'disconnect' when openSync throws (the client then stays undefined).
\* A failed assertion is thrown out of the constructor: no store results.
Construct(conn, opened) ==
    /\ store.status = "new"
    /\ LET hasClient == conn # "none" \/ opened # "throws"
           isConnected == IF conn # "none" THEN conn = "connected"
                          ELSE opened = "connected"
           emitted == IF conn # "none" THEN "none"
                      ELSE IF opened = "throws" THEN "disconnect" ELSE "connect"
       IN  /\ store' = [status |-> IF ConstructorAsserts(hasClient, isConnected)
                                   THEN "built" ELSE "failed",
                        client |-> hasClient,
                        emitted |-> emitted]
           /\ connected' = isConnected
    /\ UNCHANGED <<options, tableExists, table, pc, call, cb, calls, disturbed,
                   cleanSet, cleared>>

\* --------------------------------------------------------------- the database

\* A statement fails in the driver when the connection is closed or the
\* table it names does not exist.
QueryFails == ~connected \/ ~tableExists

RowsOf(tbl, sid) == {r \in tbl : r.session_id = sid}

\* INSERT INTO t (session_id, expires, data) VALUES (?, ?, ?) without the
\* primary key: the row is added whatever the table holds.
DbInsertNoKey(tbl, sid, expires, data) ==
    [ok |-> TRUE, tbl |-> tbl \cup {Row(sid, expires, data)}]

\* INSERT that reports the duplicate key after it has overwritten the row.
DbInsertClobber(tbl, sid, expires, data) ==
    [ok |-> RowsOf(tbl, sid) = {},
     tbl |-> {r \in tbl : r.session_id # sid} \cup {Row(sid, expires, data)}]

\* INSERT written as a replace: a row with the id gives way to the new one.
DbInsertReplace(tbl, sid, expires, data) ==
    [ok |-> TRUE,
     tbl |-> {r \in tbl : r.session_id # sid} \cup {Row(sid, expires, data)}]

\* INSERT INTO t (session_id, expires, data) VALUES (?, ?, ?): session_id
\* is the PRIMARY KEY of the table, so a second row with the id is refused.
DbInsert(tbl, sid, expires, data) ==
    IF RowsOf(tbl, sid) # {}
    THEN [ok |-> FALSE, tbl |-> tbl]
    ELSE [ok |-> TRUE, tbl |-> tbl \cup {Row(sid, expires, data)}]

\* UPDATE that sets the data column alone and leaves expires as it was.
DbUpdateDataOnly(tbl, sid, expires, data) ==
    {IF r.session_id = sid THEN Row(sid, r.expires, data) ELSE r : r \in tbl}

\* UPDATE t SET expires = ?, data = ? WHERE session_id = ?
DbUpdate(tbl, sid, expires, data) ==
    {IF r.session_id = sid THEN Row(sid, expires, data) ELSE r : r \in tbl}

\* UPDATE written as an upsert: the row is created when it is missing.
DbTouchUpsert(tbl, sid, expires) ==
    IF RowsOf(tbl, sid) = {}
    THEN tbl \cup {Row(sid, expires, CorruptData)}
    ELSE {IF r.session_id = sid THEN [r EXCEPT !.expires = expires] ELSE r : r \in tbl}

\* UPDATE that also rewrites the data column of the row.
DbTouchRewrite(tbl, sid, expires) ==
    {IF r.session_id = sid THEN Row(sid, expires, CorruptData) ELSE r : r \in tbl}

\* UPDATE t SET expires = ? WHERE session_id = ?
DbTouch(tbl, sid, expires) ==
    {IF r.session_id = sid THEN [r EXCEPT !.expires = expires] ELSE r : r \in tbl}

\* DELETE without its WHERE clause.
DbDeleteAll(tbl, sid) == {}

\* DELETE FROM t WHERE session_id = ?
DbDelete(tbl, sid) == {r \in tbl : r.session_id # sid}

\* DELETE restricted to the rows of one id.
DbClearOne(tbl) == {r \in tbl : r.session_id # "a"}

\* DELETE FROM t
DbClear(tbl) == {}

\* --------------------------------------------------------------- call steps

CanCall(p) ==
    /\ store.status = "built"
    /\ pc[p] \in {"idle", "done", "thrown"}
    /\ calls < MaxCalls

\* Variant of the assertion that always passes.
AssertPassesAlways(isConnected) == TRUE

\* assert(store.client.connected)
AssertPasses(isConnected) == isConnected

\* Variant of the method head that hands a failed check to the callback
\* instead of throwing.
DispatchOrDeliver(p, c) ==
    /\ calls' = calls + 1
    /\ disturbed' = [disturbed EXCEPT ![p] = FALSE]
    /\ IF connected
       THEN /\ pc' = [pc EXCEPT ![p] = "query"]
            /\ call' = [call EXCEPT ![p] = [c EXCEPT !.nq = 1]]
            /\ cb' = [cb EXCEPT ![p] = NoCb]
       ELSE /\ pc' = [pc EXCEPT ![p] = "done"]
            /\ call' = [call EXCEPT ![p] = c]
            /\ cb' = [cb EXCEPT ![p] = [n |-> 1, err |-> DriverErr, res |-> NoRes]]

\* assert(store.client.connected); store.client.query(sql, ...): the
\* assertion throws to the caller when the client is not connected,
\* otherwise the statement is dispatched and the method returns.
Dispatch(p, c) ==
    /\ calls' = calls + 1
    /\ cb' = [cb EXCEPT ![p] = NoCb]
    /\ disturbed' = [disturbed EXCEPT ![p] = FALSE]
    /\ IF AssertPasses(connected)
       THEN /\ pc' = [pc EXCEPT ![p] = "query"]
            /\ call' = [call EXCEPT ![p] =
                   [c EXCEPT !.nq = 1, !.sentClosed = ~connected]]
       ELSE /\ pc' = [pc EXCEPT ![p] = "thrown"]
            /\ call' = [call EXCEPT ![p] = c]

\* Variant of the callback whose error branch lacks its return, so that fn
\* is invoked for the error and once more after it.
FinishNoReturn(p, err, res) ==
    /\ pc' = [pc EXCEPT ![p] = "done"]
    /\ cb' = [cb EXCEPT ![p] = [n |-> cb[p].n + (IF err # NoErr THEN 2 ELSE 1),
                                err |-> err, res |-> res]]

\* return fn(err, result)
Finish(p, err, res) ==
    /\ pc' = [pc EXCEPT ![p] = "done"]
    /\ cb' = [cb EXCEPT ![p] = [n |-> cb[p].n + 1, err |-> err, res |-> res]]

\* The set calls in flight on id sid (all of them when sid is "*") lose
\* their footing when rows are deleted under them.
Disturb(sid) ==
    [q \in Procs |->
        disturbed[q] \/ (/\ pc[q] \in {"query", "counted", "write"}
                         /\ call[q].op = "set"
                         /\ (sid = "*" \/ call[q].sid = sid))]

\* ------------------------------------------------------------------------ get

\* Db2Store.prototype.get: the method body up to the dispatch of the SELECT.
GetCall(p, sid) ==
    /\ CanCall(p)
    /\ Dispatch(p, [NoCall EXCEPT !.op = "get", !.sid = sid,
                                  !.follows = cleanSet[sid].has])
    /\ UNCHANGED <<options, store, cleared, connected, tableExists, table, cleanSet>>

\* Variant of get's callback that reports a row it cannot parse as not found.
GetResultLenient(rows, sid) ==
    IF rows = {} THEN [err |-> NoErr, res |-> NullRes]
    ELSE LET parsed == JSONparse((CHOOSE r \in rows : TRUE).data)
         IN  IF parsed.ok THEN [err |-> NoErr, res |-> SessRes(parsed.value)]
             ELSE [err |-> NoErr, res |-> NullRes]

\* Variant of get's callback that reports a missing row as an error.
GetResultStrict(rows, sid) ==
    IF rows = {} THEN [err |-> DriverErr, res |-> NullRes]
    ELSE LET parsed == JSONparse((CHOOSE r \in rows : TRUE).data)
         IN  IF parsed.ok THEN [err |-> NoErr, res |-> SessRes(parsed.value)]
             ELSE [err |-> ParseErr(sid), res |-> NoRes]

\* get's callback on a successful SELECT:
\*   result = !!rows[0] ? JSON.parse(rows[0].data) : null, with a thrown
\*   SyntaxError turned into Error('Failed to parse data for session: ' + sid).
GetResult(rows, sid) ==
    IF rows = {} THEN [err |-> NoErr, res |-> NullRes]
    ELSE LET parsed == JSONparse((CHOOSE r \in rows : TRUE).data)
         IN  IF parsed.ok THEN [err |-> NoErr, res |-> SessRes(parsed.value)]
             ELSE [err |-> ParseErr(sid), res |-> NoRes]

\* The SELECT executes and get's callback runs.
GetReply(p) ==
    /\ pc[p] = "query" /\ call[p].op = "get"
    /\ IF QueryFails
       THEN Finish(p, DriverErr, NullRes)
       ELSE LET o == GetResult(RowsOf(table, call[p].sid), call[p].sid)
            IN  Finish(p, o.err, o.res)
    /\ UNCHANGED <<options, store, cleared, connected, tableExists, table, call, calls,
                   disturbed, cleanSet>>

\* ------------------------------------------------------------------------ set

\* Variant of set that takes every session for serializable.
SerializableAlways(sess) == TRUE

\* Whether JSON.stringify(sess) returns: it throws a TypeError on an object
\* that refers to itself.
Serializable(sess) == ~sess.circular

\* Db2Store.prototype.set: getExpires, then JSON.stringify, whose exception
\* is handed to fn at once, then the dispatch of the count query.
SetCall(p, sid, sess, now) ==
    /\ CanCall(p)
    /\ LET c == [NoCall EXCEPT !.op = "set", !.sid = sid, !.sess = sess,
                               !.now = now,
                               !.expires = getExpires(sess, options.expiration, now)]
       IN  IF ~Serializable(sess)
           THEN /\ calls' = calls + 1
                /\ disturbed' = [disturbed EXCEPT ![p] = FALSE]
                /\ call' = [call EXCEPT ![p] = c]
                /\ pc' = [pc EXCEPT ![p] = "done"]
                /\ cb' = [cb EXCEPT ![p] =
                       [n |-> 1, err |-> SerializeErr, res |-> NoRes]]
           ELSE Dispatch(p, [c EXCEPT !.jsess = JSONstringify(sess)])
    /\ UNCHANGED <<options, store, cleared, connected, tableExists, table, cleanSet>>

\* The count query executes in the database: SELECT COUNT(*) AS "length"
\* FROM t WHERE session_id = ?.  Its callback runs in a later step, and a
\* close may complete in between.
SetCountExec(p) ==
    /\ pc[p] = "query" /\ call[p].op = "set"
    /\ pc' = [pc EXCEPT ![p] = "counted"]
    /\ call' = [call EXCEPT
           ![p].qerr = QueryFails,
           ![p].count = IF QueryFails THEN 0
                        ELSE Cardinality(RowsOf(table, call[p].sid))]
    /\ UNCHANGED <<options, store, cleared, connected, tableExists, table, cb,
                   calls, disturbed, cleanSet>>

\* Variant of set's choice that always inserts.
SetStatementInsert(count) == "INSERT"

\* The statement set picks from the count it read.
SetStatement(count) == IF count > 0 THEN "UPDATE" ELSE "INSERT"

\* The callback of the count query: an error goes to fn, otherwise the
\* INSERT or the UPDATE is dispatched (no assertion on the connection
\* precedes this second dispatch).
SetCountReply(p) ==
    /\ pc[p] = "counted" /\ call[p].op = "set"
    /\ IF call[p].qerr
       THEN /\ Finish(p, DriverErr, NoRes)
            /\ UNCHANGED call
       ELSE /\ pc' = [pc EXCEPT ![p] = "write"]
            /\ call' = [call EXCEPT
                   ![p].sql = SetStatement(call[p].count),
                   ![p].nq = 2,
                   ![p].sentClosed = ~connected]
            /\ UNCHANGED cb
    /\ UNCHANGED <<options, store, cleared, connected, tableExists, table, calls, disturbed,
                   cleanSet>>

\* What a successful set leaves in cleanSet for its id.
CleanAfterSet(p) ==
    [cleanSet EXCEPT ![call[p].sid] =
        IF disturbed[p] THEN NoClean ELSE [has |-> TRUE, sess |-> call[p].sess]]

\* The INSERT or UPDATE executes and its callback runs.
SetWriteReply(p) ==
    /\ pc[p] = "write" /\ call[p].op = "set"
    /\ LET c == call[p]
           ins == DbInsert(table, c.sid, c.expires, c.jsess)
       IN  IF QueryFails
           THEN /\ Finish(p, DriverErr, NoRes)
                /\ UNCHANGED <<table, cleanSet, cleared>>
           ELSE IF c.sql = "UPDATE"
           THEN /\ table' = DbUpdate(table, c.sid, c.expires, c.jsess)
                /\ cleanSet' = CleanAfterSet(p)
                /\ cleared' = FALSE
                /\ Finish(p, NoErr, NoRes)
           ELSE IF ins.ok
           THEN /\ table' = ins.tbl
                /\ cleanSet' = CleanAfterSet(p)
                /\ cleared' = FALSE
                /\ Finish(p, NoErr, NoRes)
           ELSE /\ table' = ins.tbl
                /\ Finish(p, ConstraintErr, NoRes)
                /\ UNCHANGED <<cleanSet, cleared>>
    /\ UNCHANGED <<options, store, connected, tableExists, call, calls, disturbed>>

\* -------------------------------------------------------------------- destroy

\* Db2Store.prototype.destroy up to the dispatch of the DELETE.
DestroyCall(p, sid) ==
    /\ CanCall(p)
    /\ Dispatch(p, [NoCall EXCEPT !.op = "destroy", !.sid = sid])
    /\ UNCHANGED <<options, store, cleared, connected, tableExists, table, cleanSet>>

\* The DELETE executes and destroy's callback runs.
DestroyReply(p) ==
    /\ pc[p] = "query" /\ call[p].op = "destroy"
    /\ IF QueryFails
       THEN /\ Finish(p, DriverErr, NoRes)
            /\ UNCHANGED <<table, cleanSet, disturbed>>
       ELSE /\ table' = DbDelete(table, call[p].sid)
            /\ cleanSet' = [cleanSet EXCEPT ![call[p].sid] = NoClean]
            /\ disturbed' = Disturb(call[p].sid)
            /\ Finish(p, NoErr, NoRes)
    /\ UNCHANGED <<options, store, cleared, connected, tableExists, call, calls>>

\* ---------------------------------------------------------------------- touch

\* Db2Store.prototype.touch: getExpires, then the dispatch of the UPDATE.
TouchCall(p, sid, sess, now) ==
    /\ CanCall(p)
    /\ Dispatch(p, [NoCall EXCEPT !.op = "touch", !.sid = sid, !.sess = sess,
                                  !.now = now,
                                  !.expires = getExpires(sess, options.expiration, now)])
    /\ UNCHANGED <<options, store, cleared, connected, tableExists, table, cleanSet>>

\* The UPDATE of the expires column executes and touch's callback runs.
TouchReply(p) ==
    /\ pc[p] = "query" /\ call[p].op = "touch"
    /\ IF QueryFails
       THEN /\ Finish(p, DriverErr, NoRes)
            /\ UNCHANGED table
       ELSE /\ table' = DbTouch(table, call[p].sid, call[p].expires)
            /\ Finish(p, NoErr, NoRes)
    /\ UNCHANGED <<options, store, cleared, connected, tableExists, call, calls, disturbed,
                   cleanSet>>

\* --------------------------------------------------------------------- length

\* Db2Store.prototype.length up to the dispatch of SELECT COUNT(*).
LengthCall(p) ==
    /\ CanCall(p)
    /\ Dispatch(p, [NoCall EXCEPT !.op = "length"])
    /\ UNCHANGED <<options, store, cleared, connected, tableExists, table, cleanSet>>

\* SELECT COUNT(*) AS "length" FROM t
DbLength(tbl) == Cardinality(tbl)

\* The count executes and length's callback runs.
LengthReply(p) ==
    /\ pc[p] = "query" /\ call[p].op = "length"
    /\ IF QueryFails
       THEN Finish(p, DriverErr, NoRes)
       ELSE Finish(p, NoErr, CountRes(DbLength(table)))
    /\ UNCHANGED <<options, store, cleared, connected, tableExists, table, call, calls,
                   disturbed, cleanSet>>

\* ---------------------------------------------------------------------- clear

\* Db2Store.prototype.clear up to the dispatch of the DELETE.
ClearCall(p) ==
    /\ CanCall(p)
    /\ Dispatch(p, [NoCall EXCEPT !.op = "clear"])
    /\ UNCHANGED <<options, store, cleared, connected, tableExists, table, cleanSet>>

\* The DELETE of all rows executes and clear's callback runs.
ClearReply(p) ==
    /\ pc[p] = "query" /\ call[p].op = "clear"
    /\ IF QueryFails
       THEN /\ Finish(p, DriverErr, NoRes)
            /\ UNCHANGED <<table, cleanSet, disturbed, cleared>>
       ELSE /\ table' = DbClear(table)
            /\ cleanSet' = [i \in Ids |-> NoClean]
            /\ disturbed' = Disturb("*")
            /\ cleared' = TRUE
            /\ Finish(p, NoErr, NoRes)
    /\ UNCHANGED <<options, store, connected, tableExists, call, calls>>

\* ---------------------------------------------------------------------- close

\* Variant of close's guard that tests only for the client being there.
CloseIsNoopAbsentOnly(hasClient, isConnected) == ~hasClient

\* close's guard: if (!store.client) return fn(); if
\* (!store.client.connected) return fn();
CloseIsNoop(hasClient, isConnected) == ~hasClient \/ ~isConnected

\* Db2Store.prototype.close: an absent or already closed client is a
\* success without a call to the driver; otherwise the driver's close is
\* called.
CloseCall(p) ==
    /\ CanCall(p)
    /\ calls' = calls + 1
    /\ disturbed' = [disturbed EXCEPT ![p] = FALSE]
    /\ IF CloseIsNoop(store.client, connected)
       THEN /\ pc' = [pc EXCEPT ![p] = "done"]
            /\ call' = [call EXCEPT ![p] =
                   [NoCall EXCEPT !.op = "close", !.log = <<"fn">>]]
            /\ cb' = [cb EXCEPT ![p] = [n |-> 1, err |-> NoErr, res |-> NoRes]]
       ELSE /\ pc' = [pc EXCEPT ![p] = "closing"]
            /\ call' = [call EXCEPT ![p] =
                   [NoCall EXCEPT !.op = "close", !.log = <<"close">>]]
            /\ cb' = [cb EXCEPT ![p] = NoCb]
    /\ UNCHANGED <<options, store, cleared, connected, tableExists, table, cleanSet>>

\* The driver closes the connection, or reports that it could not, and
\* close's callback runs: store.emit('disconnect', ...), then fn.
CloseReply(p) ==
    /\ pc[p] = "closing"
    /\ \E ok \in BOOLEAN :
           IF ok
           THEN /\ connected' = FALSE
                /\ Finish(p, NoErr, NoRes)
           ELSE /\ UNCHANGED connected
                /\ Finish(p, DriverErr, NoRes)
    /\ call' = [call EXCEPT ![p].log = call[p].log \o <<"disconnect", "fn">>]
    /\ UNCHANGED <<options, store, cleared, tableExists, table, calls, disturbed,
                   cleanSet>>

\* -------------------------------------------------------- createDatabaseTable

\* Db2Store.prototype.createDatabaseTable up to the dispatch of CREATE TABLE.
CreateCall(p) ==
    /\ CanCall(p)
    /\ Dispatch(p, [NoCall EXCEPT !.op = "create"])
    /\ UNCHANGED <<options, store, cleared, connected, tableExists, table, cleanSet>>

\* CREATE TABLE executes (it fails when the table exists) and the callback runs.
CreateReply(p) ==
    /\ pc[p] = "query" /\ call[p].op = "create"
    /\ IF ~connected \/ tableExists
       THEN /\ Finish(p, DriverErr, NoRes)
            /\ UNCHANGED <<tableExists, table>>
       ELSE /\ tableExists' = TRUE
            /\ table' = {}
            /\ Finish(p, NoErr, NoRes)
    /\ UNCHANGED <<options, store, cleared, connected, call, calls, disturbed, cleanSet>>

\* ---------------------------------------------------------- dropDatabaseTable

\* Variant of the gate that lets every drop through.
DropAllowedAlways(opts) == TRUE

\* The gate of dropDatabaseTable: !store.options.allowDrop refuses the drop.
DropAllowed(opts) == opts.allowDrop

\* Db2Store.prototype.dropDatabaseTable: refused with an Error handed to fn
\* unless allowDrop is set, otherwise DROP TABLE is dispatched.
DropCall(p) ==
    /\ CanCall(p)
    /\ IF ~DropAllowed(options)
       THEN /\ calls' = calls + 1
            /\ disturbed' = [disturbed EXCEPT ![p] = FALSE]
            /\ call' = [call EXCEPT ![p] = [NoCall EXCEPT !.op = "drop"]]
            /\ pc' = [pc EXCEPT ![p] = "done"]
            /\ cb' = [cb EXCEPT ![p] = [n |-> 1, err |-> ConfigErr, res |-> NoRes]]
       ELSE Dispatch(p, [NoCall EXCEPT !.op = "drop"])
    /\ UNCHANGED <<options, store, cleared, connected, tableExists, table, cleanSet>>

\* DROP TABLE executes and the callback runs.
DropReply(p) ==
    /\ pc[p] = "query" /\ call[p].op = "drop"
    /\ IF QueryFails
       THEN /\ Finish(p, DriverErr, NoRes)
            /\ UNCHANGED <<tableExists, table, cleanSet, disturbed>>
       ELSE /\ tableExists' = FALSE
            /\ table' = {}
            /\ cleanSet' = [i \in Ids |-> NoClean]
            /\ disturbed' = Disturb("*")
            /\ Finish(p, NoErr, NoRes)
    /\ UNCHANGED <<options, store, cleared, connected, call, calls>>

\* ------------------------------------------------------------- specifications

Next ==
    \E p \in Procs :
        \/ \E sid \in Ids : GetCall(p, sid)
        \/ GetReply(p)
        \/ \E sid \in Ids, in \in SetInputs : SetCall(p, sid, in[1], in[2])
        \/ SetCountExec(p)
        \/ SetCountReply(p)
        \/ SetWriteReply(p)
        \/ \E sid \in Ids : DestroyCall(p, sid)
        \/ DestroyReply(p)
        \/ \E sid \in Ids, in \in CallInputs : TouchCall(p, sid, in[1], in[2])
        \/ TouchReply(p)
        \/ LengthCall(p)
        \/ LengthReply(p)
        \/ ClearCall(p)
        \/ ClearReply(p)
        \/ CloseCall(p)
        \/ CloseReply(p)
        \/ CreateCall(p)
        \/ CreateReply(p)
        \/ DropCall(p)
        \/ DropReply(p)

Spec == Init /\ [][Next]_vars

\* The driver answers every statement and every close it was handed, and the
\* event loop runs every callback that is due; callers may stop calling.
Answer(p) ==
    \/ GetReply(p)
    \/ SetCountExec(p)
    \/ SetCountReply(p)
    \/ SetWriteReply(p)
    \/ DestroyReply(p)
    \/ TouchReply(p)
    \/ LengthReply(p)
    \/ ClearReply(p)
    \/ CloseReply(p)
    \/ CreateReply(p)
    \/ DropReply(p)

SpecLive == Init /\ [][Next]_vars /\ \A p \in Procs : WF_vars(Answer(p))

\* Concurrent set calls alone, on a store whose table exists.
InitSets == Init /\ tableExists

NextSets ==
    \E p \in Procs :
        \/ \E sid \in Ids, in \in SetInputs : SetCall(p, sid, in[1], in[2])
        \/ SetCountExec(p)
        \/ SetCountReply(p)
        \/ SetWriteReply(p)

SpecSets == InitSets /\ [][NextSets]_vars

\* The constructor, followed by calls on the store it returned.
InitCtor ==
    /\ \E e \in ExpirationOptions, d \in AllowDropOptions :
           options = MergeOptions(e, d)
    /\ store = NewStore
    /\ connected = FALSE
    /\ tableExists \in BOOLEAN
    /\ table \in (IF tableExists THEN InitialTables ELSE {{}})
    /\ pc = [p \in Procs |-> "idle"]
    /\ call = [p \in Procs |-> NoCall]
    /\ cb = [p \in Procs |-> NoCb]
    /\ calls = 0
    /\ disturbed = [p \in Procs |-> FALSE]
    /\ cleanSet = [i \in Ids |-> NoClean]
    /\ cleared = FALSE

NextCtor ==
    \/ \E conn \in SuppliedConnections, opened \in OpenOutcomes :
           Construct(conn, opened)
    \/ \E p \in Procs :
           \/ LengthCall(p)
           \/ LengthReply(p)
           \/ CloseCall(p)
           \/ CloseReply(p)

SpecCtor == InitCtor /\ [][NextCtor]_vars

\* --------------------------------------------------------------- properties

\* Caller p's statement is answered in this step and fn is invoked.
Replied(p, op) ==
    /\ pc[p] \in {"query", "counted", "write"}
    /\ call[p].op = op
    /\ pc'[p] = "done"

\* Caller p starts a call of op in this step: a call starts, it is not a
\* call of another caller, and p is left where a method leaves its caller
\* on return (a statement dispatched, a close handed to the driver, the
\* assertion thrown, or fn invoked before any statement).
Called(p, op) ==
    /\ calls' = calls + 1
    /\ pc[p] \in {"idle", "done", "thrown"}
    /\ call'[p].op = op
    /\ \A q \in Procs \ {p} : pc'[q] = pc[q] /\ call'[q] = call[q] /\ cb'[q] = cb[q]
    /\ \/ pc'[p] \in {"query", "closing", "thrown"}
       \/ pc'[p] = "done" /\ call'[p].nq = 0 /\ Len(call'[p].log) <= 1

\* A session as JSON text can carry it: every Date is read back as its
\* ISO string, every other value as it was.
AsJSONText(v) == IF v.type = "date" THEN [type |-> "str", ms |-> v.ms] ELSE v
ReadBack(s) ==
    [s EXCEPT !.expires = AsJSONText(s.expires), !._expires = AsJSONText(s._expires)]

\* The effective millisecond timestamp of a session: cookie.expires if
\* present, else cookie._expires if present, else now + expiration.
EffectiveT(s, expiration, now) ==
    IF s.cookie /\ s.expires.type # "absent" THEN s.expires.ms
    ELSE IF s.cookie /\ s._expires.type # "absent" THEN s._expires.ms
    ELSE now + expiration

\* k is round(t / 1000): the whole number of seconds nearest to t
\* milliseconds, a half rounding up.
IsRoundedSeconds(k, t) ==
    k = IF t % 1000 >= 500 THEN (t \div 1000) + 1 ELSE t \div 1000

\* C1 (as stated): once set(id, s) has completed successfully with no other
\* operation on id and no clear() since it started, a get(id) called after
\* it on the open connection delivers no error and a session equal to s.
C1_RoundTripEqual ==
    [][\A p \in Procs :
         (/\ Replied(p, "get") /\ connected
          /\ call[p].follows /\ cleanSet[call[p].sid].has)
         => /\ cb'[p].err = NoErr
            /\ cb'[p].res = SessRes(cleanSet[call[p].sid].sess)]_vars

\* C1 (amended): under the same conditions get(id) delivers no error and the
\* JSON round trip of s: s itself when s holds only JSON values, and s with
\* each Date replaced by its ISO string otherwise.
C1_RoundTripJSON ==
    [][\A p \in Procs :
         (/\ Replied(p, "get") /\ connected
          /\ call[p].follows /\ cleanSet[call[p].sid].has)
         => /\ cb'[p].err = NoErr
            /\ cb'[p].res = SessRes(ReadBack(cleanSet[call[p].sid].sess))]_vars

\* C1 witness: a get has delivered the read-back form of a session with a
\* Date that a completed, undisturbed set stored under the id.
C1_Witness ==
    \E p \in Procs :
        /\ pc[p] = "done" /\ call[p].op = "get" /\ call[p].follows
        /\ cleanSet[call[p].sid] = [has |-> TRUE, sess |-> DateSess]
        /\ cb[p] = [n |-> 1, err |-> NoErr, res |-> SessRes(ReadBack(DateSess))]

\* C2: with only set calls running, the table never holds two rows with the
\* same session_id, and once two set calls for the same id have both
\* completed exactly one row with that id exists.
C2_OneRowPerId ==
    /\ \A id \in Ids : Cardinality(RowsOf(table, id)) <= 1
    /\ \A p, q \in Procs :
         (/\ p # q
          /\ pc[p] = "done" /\ call[p].op = "set" /\ call[p].nq = 2
          /\ pc[q] = "done" /\ call[q].op = "set" /\ call[q].nq = 2
          /\ call[p].sid = call[q].sid)
         => Cardinality(RowsOf(table, call[p].sid)) = 1

\* C2 witness: two set calls for the same id with different sessions both
\* observed no row, both attempted INSERT, and both have completed.
C2_Witness ==
    \E p, q \in Procs :
        /\ p # q
        /\ pc[p] = "done" /\ call[p].op = "set" /\ call[p].sql = "INSERT"
        /\ pc[q] = "done" /\ call[q].op = "set" /\ call[q].sql = "INSERT"
        /\ call[p].sid = call[q].sid
        /\ call[p].jsess # call[q].jsess
        /\ Cardinality(RowsOf(table, call[p].sid)) = 1

\* C3: get(id) answered while the table holds no row for id (never written,
\* or removed by destroy or clear) delivers result null and no error.
C3_GetMissingIsNull ==
    [][\A p \in Procs :
         (Replied(p, "get") /\ ~QueryFails /\ RowsOf(table, call[p].sid) = {})
         => cb'[p] = [n |-> 1, err |-> NoErr, res |-> NullRes]]_vars

\* C3 witness: a get returned null for an id after a destroy of that id
\* succeeded.
C3_Witness ==
    \E p, q \in Procs :
        /\ pc[p] = "done" /\ call[p].op = "get"
        /\ cb[p] = [n |-> 1, err |-> NoErr, res |-> NullRes]
        /\ pc[q] = "done" /\ call[q].op = "destroy" /\ cb[q].err = NoErr
        /\ call[q].sid = call[p].sid

\* C4: touch(id, s) answered while the table holds no row for id succeeds
\* without error and leaves the table as it was: no row is created and the
\* count length() reads is the same.
C4_TouchMissingNoRow ==
    [][\A p \in Procs :
         (Replied(p, "touch") /\ ~QueryFails /\ RowsOf(table, call[p].sid) = {})
         => /\ cb'[p] = [n |-> 1, err |-> NoErr, res |-> NoRes]
            /\ table' = table
            /\ DbLength(table') = DbLength(table)]_vars

\* C4 witness: a touch of an id without a row has succeeded, there are
\* other rows, and the id still has none.
C4_Witness ==
    \E p \in Procs :
        /\ pc[p] = "done" /\ call[p].op = "touch" /\ cb[p].err = NoErr
        /\ tableExists /\ table # {}
        /\ RowsOf(table, call[p].sid) = {}

C6_DropGate ==
    [][\A p \in Procs :
         /\ (Called(p, "drop") /\ ~options.allowDrop)
            => /\ pc'[p] = "done"
               /\ cb'[p] = [n |-> 1, err |-> ConfigErr, res |-> NoRes]
               /\ call'[p].nq = 0
               /\ tableExists' = tableExists /\ table' = table
         /\ (Called(p, "drop") /\ options.allowDrop /\ connected)
            => /\ pc'[p] = "query" /\ call'[p].nq = 1 /\ cb'[p].n = 0
               /\ tableExists' = tableExists /\ table' = table
         /\ (Replied(p, "drop") => options.allowDrop)
         /\ (Replied(p, "drop") /\ ~QueryFails)
            => /\ cb'[p] = [n |-> 1, err |-> NoErr, res |-> NoRes]
               /\ ~tableExists' /\ QueryFails']_vars

\* C6 witness: one drop was refused with the configuration error while the
\* table still holds its rows.
C6_Witness ==
    \E p \in Procs :
        /\ pc[p] = "done" /\ call[p].op = "drop"
        /\ ~options.allowDrop /\ cb[p].err = ConfigErr /\ call[p].nq = 0
        /\ tableExists /\ table # {}

\* C7: once clear() has completed successfully and no set has completed
\* since, a length() answered on the open connection returns 0.
C7_ClearThenLengthZero ==
    [][\A p \in Procs :
         (Replied(p, "length") /\ cleared /\ ~QueryFails)
         => cb'[p] = [n |-> 1, err |-> NoErr, res |-> CountRes(0)]]_vars

\* C7 witness: a clear succeeded and a length has returned a count after it.
C7_Witness ==
    \E p, q \in Procs :
        /\ cleared
        /\ pc[q] = "done" /\ call[q].op = "clear" /\ cb[q].err = NoErr
        /\ pc[p] = "done" /\ call[p].op = "length"
        /\ cb[p] = [n |-> 1, err |-> NoErr, res |-> CountRes(0)]

\* C8: destroy(id) answered while no row for id exists succeeds without
\* error and leaves every row as it was; answered while the row exists it
\* succeeds and removes that row and no other.
C8_DestroyExactlyOne ==
    [][\A p \in Procs :
         (Replied(p, "destroy") /\ ~QueryFails)
         => /\ cb'[p] = [n |-> 1, err |-> NoErr, res |-> NoRes]
            /\ RowsOf(table', call[p].sid) = {}
            /\ \A r \in table : r.session_id # call[p].sid => r \in table'
            /\ table' \subseteq table
            /\ (RowsOf(table, call[p].sid) = {} => table' = table)]_vars

\* C8 witness: a destroy of an id without a row has succeeded and the other
\* rows are still there.
C8_Witness ==
    \E p \in Procs :
        /\ pc[p] = "done" /\ call[p].op = "destroy" /\ cb[p].err = NoErr
        /\ calls = 1
        /\ table # {} /\ RowsOf(table, call[p].sid) = {}

\* C9: every row written by the INSERT or UPDATE of a set, or by the UPDATE
\* of a touch, carries in expires round(T / 1000), T being the session's
\* cookie.expires if present, else its cookie._expires if present, else
\* now + the configured expiration; T itself is never stored.
C9_ExpiresWholeSeconds ==
    [][\A p \in Procs :
         (Replied(p, "set") \/ Replied(p, "touch"))
         => \A r \in table' \ table :
              LET T == EffectiveT(call[p].sess, options.expiration, call[p].now)
              IN  /\ r.session_id = call[p].sid
                  /\ IsRoundedSeconds(r.expires, T)
                  /\ r.expires # T]_vars

\* C9 witness: a set stored the rounded cookie.expires of a session that
\* also carries a cookie._expires, a half second rounding up.
C9_Witness ==
    \E p \in Procs :
        /\ pc[p] = "done" /\ call[p].op = "set" /\ cb[p].err = NoErr
        /\ call[p].sess = DateSess
        /\ Row(call[p].sid, 3, JSONstringify(DateSess)) \in table

\* C10: get(id) answered from a row whose data column is not valid JSON
\* delivers an error naming the session id, and not the not-found outcome.
C10_CorruptIsError ==
    [][\A p \in Procs :
         (/\ Replied(p, "get") /\ ~QueryFails
          /\ \E r \in RowsOf(table, call[p].sid) : ~JSONparse(r.data).ok)
         => /\ cb'[p].n = 1
            /\ cb'[p].err.kind = "parse"
            /\ cb'[p].err.sid = call[p].sid
            /\ ~(cb'[p].err = NoErr /\ cb'[p].res = NullRes)]_vars

\* C10 witness: a get of the id whose row holds invalid text has delivered
\* the parse error with that id.
C10_Witness ==
    \E p \in Procs :
        /\ pc[p] = "done" /\ call[p].op = "get"
        /\ cb[p].err = ParseErr(call[p].sid)
        /\ \E r \in RowsOf(table, call[p].sid) : ~r.data.valid

\* C11: close() on a store whose client is absent or not connected invokes
\* fn without error, does not call the driver's close and emits nothing;
\* close() on a connected client calls the driver's close, and when the
\* driver answers a disconnect is emitted before fn is invoked, once.
C11_CloseNoopOrDisconnect ==
    [][\A p \in Procs :
         /\ (Called(p, "close") /\ (~store.client \/ ~connected))
            => /\ pc'[p] = "done"
               /\ cb'[p] = [n |-> 1, err |-> NoErr, res |-> NoRes]
               /\ call'[p].log = <<"fn">>
               /\ connected' = connected
         /\ (Called(p, "close") /\ store.client /\ connected)
            => /\ pc'[p] = "closing"
               /\ call'[p].log = <<"close">>
               /\ cb'[p].n = 0
         /\ (pc[p] = "closing" /\ pc'[p] = "done")
            => /\ call'[p].log = <<"close", "disconnect", "fn">>
               /\ cb'[p].n = 1]_vars

\* C11 witness: one close closed the connection and emitted its disconnect,
\* and a second close of the closed store returned at once.
C11_Witness ==
    \E p, q \in Procs :
        /\ ~connected
        /\ pc[p] = "done" /\ call[p].log = <<"close", "disconnect", "fn">>
        /\ pc[q] = "done" /\ call[q].op = "close" /\ call[q].log = <<"fn">>
        /\ cb[q] = [n |-> 1, err |-> NoErr, res |-> NoRes]

\* C12: the constructor fails exactly when the resulting handle is absent
\* or not connected, whether the handle was supplied or opened; the store
\* it returns has a client whose connected flag is true, and a store whose
\* construction failed is never used.
C12_ConstructionNeedsConnection ==
    [][/\ (store.status = "new" /\ store'.status # "new")
          => /\ store'.status = "failed" <=> (~store'.client \/ ~connected')
             /\ store'.status = "built" <=> (store'.client /\ connected')
       /\ store.status # "built" => calls' = 0]_vars

\* C12 witness: construction with a handle that is there but not connected
\* has failed.
C12_Witness ==
    store.status = "failed" /\ store.client /\ ~connected

\* C13: when two set calls for one id both read a count of zero before
\* either wrote, both send INSERT; once both have completed exactly one of
\* them was told of success and the other was handed the constraint error,
\* and the row in the table carries the expires and the data of the one
\* that succeeded.
C13_OneInsertWins ==
    \A p, q \in Procs :
        (/\ p # q
         /\ pc[p] = "done" /\ call[p].op = "set" /\ call[p].sql = "INSERT"
         /\ pc[q] = "done" /\ call[q].op = "set" /\ call[q].sql = "INSERT"
         /\ call[p].sid = call[q].sid)
        => /\ {cb[p].err, cb[q].err} = {NoErr, ConstraintErr}
           /\ cb[p].n = 1 /\ cb[q].n = 1
           /\ \A w \in {p, q} :
                  cb[w].err = NoErr
                  => RowsOf(table, call[p].sid)
                         = {Row(call[w].sid, call[w].expires, call[w].jsess)}

\* C13 witness: two set calls for an absent id, with different sessions and
\* different expiry times, both sent INSERT and both completed, one with the
\* constraint error.
C13_Witness ==
    \E p, q \in Procs :
        /\ p # q
        /\ pc[p] = "done" /\ call[p].op = "set" /\ call[p].sql = "INSERT"
        /\ pc[q] = "done" /\ call[q].op = "set" /\ call[q].sql = "INSERT"
        /\ call[p].sid = call[q].sid
        /\ call[p].jsess # call[q].jsess /\ call[p].expires # call[q].expires
        /\ cb[p].err = NoErr /\ cb[q].err = ConstraintErr
        /\ table = {Row(call[p].sid, call[p].expires, call[p].jsess)}

\* C14: whenever set(id, s) reports success, the table holds, at the moment
\* the write statement completed, a row for id with the serialized s and the
\* computed expires, whatever destroy, clear, touch and set calls were
\* interleaved with it.
C14_SetMaterializesRow ==
    [][\A p \in Procs :
         (Replied(p, "set") /\ cb'[p].err = NoErr)
         => Row(call[p].sid, call[p].expires, call[p].jsess) \in table']_vars

\* The operations that send SQL.
QueryOps == {"get", "set", "destroy", "touch", "length", "clear", "create", "drop"}

\* C15 as stated: no statement is ever dispatched while the connected flag
\* is false, set's second statement included.
C15_NoStatementWhileClosed ==
    \A p \in Procs : ~call[p].sentClosed

\* C15, amended: every operation asserts the connection before it dispatches
\* its first statement, so a first statement is only ever dispatched on a
\* connected client and a call on a closed one dispatches nothing; the one
\* statement dispatched on a closed connection is set's second, sent from
\* the count callback after a close completed, and its failure is handed
\* to set's continuation with the table untouched.
C15_AssertBeforeFirstStatement ==
    [][\A p \in Procs :
         /\ \A op \in QueryOps :
               Called(p, op)
               => /\ call'[p].nq = 1 => (connected /\ ~call'[p].sentClosed)
                  /\ ~connected => (call'[p].nq = 0 /\ pc'[p] # "query")
         /\ call'[p].sentClosed => (call'[p].op = "set" /\ call'[p].nq = 2)
         /\ (pc[p] = "write" /\ call[p].sentClosed /\ pc'[p] = "done")
            => (cb'[p].err = DriverErr /\ cb'[p].n = 1 /\ table' = table)]_vars

\* C15 witness: a close completed between the execution of a set's count
\* query and its callback; the set sent its write on the closed connection
\* and its continuation received the driver's error.
C15_Witness ==
    \E p, q \in Procs :
        /\ ~connected
        /\ pc[q] = "done" /\ call[q].log = <<"close", "disconnect", "fn">>
        /\ pc[p] = "done" /\ call[p].op = "set" /\ call[p].nq = 2
        /\ call[p].sentClosed /\ ~call[p].qerr
        /\ cb[p] = [n |-> 1, err |-> DriverErr, res |-> NoRes]

\* C16 as stated: no operation ever throws to its caller.
C16_NoneThrown ==
    \A p \in Procs : pc[p] # "thrown"

\* C16, amended: a call of get, set, destroy, touch, length, clear,
\* createDatabaseTable or dropDatabaseTable on a store whose client is not
\* connected throws the assertion to the caller, dispatches nothing and never
\* invokes the continuation; only the failures found before the assertion
\* (a session that cannot be serialized, a drop that is not allowed) reach
\* the continuation.  The failure of a statement that was dispatched before
\* the connection closed is delivered to the continuation.
C16_ClosedStoreThrows ==
    [][\A p \in Procs :
         /\ \A op \in QueryOps :
               (Called(p, op) /\ ~connected)
               => IF op = "set" /\ call'[p].sess.circular
                  THEN pc'[p] = "done"
                       /\ cb'[p] = [n |-> 1, err |-> SerializeErr, res |-> NoRes]
                  ELSE IF op = "drop" /\ ~options.allowDrop
                  THEN pc'[p] = "done"
                       /\ cb'[p] = [n |-> 1, err |-> ConfigErr, res |-> NoRes]
                  ELSE pc'[p] = "thrown" /\ cb'[p].n = 0 /\ call'[p].nq = 0
         /\ (pc[p] = "thrown" /\ pc'[p] = "thrown") => cb'[p].n = 0
         /\ \A op \in QueryOps :
               (Replied(p, op) /\ ~connected)
               => (cb'[p].n = 1 /\ cb'[p].err = DriverErr)]_vars

\* C16 witness: after a close completed, a get on the closed store threw:
\* nothing was dispatched and its continuation was not invoked.
C16_Witness ==
    \E p, q \in Procs :
        /\ ~connected
        /\ pc[q] = "done" /\ call[q].log = <<"close", "disconnect", "fn">>
        /\ pc[p] = "thrown" /\ call[p].op = "get"
        /\ call[p].nq = 0 /\ cb[p].n = 0

\* C17: when the session handed to set cannot be serialized, the error is
\* delivered to the continuation within the call, no statement is issued
\* (neither the count query nor a write), and the table is unchanged.
C17_SerializeFailureNoSQL ==
    [][\A p \in Procs :
         /\ (Called(p, "set") /\ call'[p].sess.circular)
            => /\ pc'[p] = "done"
               /\ cb'[p] = [n |-> 1, err |-> SerializeErr, res |-> NoRes]
               /\ call'[p].nq = 0
               /\ table' = table
         /\ (call[p].op = "set" /\ call[p].sess.circular)
            => (pc[p] = "done" /\ call[p].nq = 0)]_vars

\* C17 witness: a set of a self-referring session on a connected store with
\* a table has completed with the serialization error and sent nothing.
C17_Witness ==
    \E p \in Procs :
        /\ connected /\ tableExists
        /\ pc[p] = "done" /\ call[p].op = "set" /\ call[p].sess = CircularSess
        /\ call[p].nq = 0
        /\ cb[p] = [n |-> 1, err |-> SerializeErr, res |-> NoRes]
        /\ RowsOf(table, call[p].sid) = {}

\* C18: when set's count query or its INSERT/UPDATE fails, the continuation
\* receives that error, once; no step of the failed set changes a row; and
\* after a failed count query the call ends without a write statement.
C18_FailedSetChangesNothing ==
    [][\A p \in Procs :
         /\ (call[p].op = "set" /\ pc[p] \in {"query", "counted"} /\ pc'[p] # pc[p])
            => table' = table
         /\ (Replied(p, "set") /\ cb'[p].err # NoErr)
            => /\ table' = table
               /\ cb'[p].n = 1
               /\ cb'[p].err \in {DriverErr, ConstraintErr}
         /\ (call[p].op = "set" /\ pc[p] = "counted" /\ call[p].qerr /\ pc'[p] # pc[p])
            => /\ pc'[p] = "done"
               /\ cb'[p] = [n |-> 1, err |-> DriverErr, res |-> NoRes]
               /\ call'[p].nq = 1
         /\ (call[p].op = "set" /\ pc[p] = "write" /\ pc'[p] = "done" /\ QueryFails)
            => cb'[p] = [n |-> 1, err |-> DriverErr, res |-> NoRes]]_vars

\* C18 witness: a set's count query failed on a connection that closed after
\* the dispatch; its continuation received the error, no write was sent and
\* the rows of the table are still there.
C18_Witness ==
    \E p \in Procs :
        /\ pc[p] = "done" /\ call[p].op = "set" /\ call[p].qerr
        /\ call[p].nq = 1
        /\ cb[p] = [n |-> 1, err |-> DriverErr, res |-> NoRes]
        /\ ~connected /\ tableExists /\ table # {}

\* C20: with set calls alone, interleaved in every way, each row a step
\* writes carries the expires and the data of one and the same set call,
\* the one whose INSERT or UPDATE that step executed; no other step writes.
C20_RowFromOneSet ==
    [][\A r \in table' \ table :
         \E p \in Procs :
             /\ call[p].op = "set" /\ pc[p] = "write" /\ pc'[p] = "done"
             /\ r = Row(call[p].sid, call[p].expires, call[p].jsess)]_vars

\* C20 witness: two set calls for one id that held a row both sent UPDATE,
\* with different data and different expiry times, and both completed; the
\* row is wholly that of one of them.
C20_Witness ==
    \E p, q \in Procs :
        /\ p # q
        /\ pc[p] = "done" /\ call[p].op = "set" /\ call[p].sql = "UPDATE"
        /\ pc[q] = "done" /\ call[q].op = "set" /\ call[q].sql = "UPDATE"
        /\ call[p].sid = call[q].sid
        /\ call[p].jsess # call[q].jsess /\ call[p].expires # call[q].expires
        /\ cb[p].err = NoErr /\ cb[q].err = NoErr
        /\ RowsOf(table, call[p].sid)
               = {Row(call[q].sid, call[q].expires, call[q].jsess)}

\* A call whose continuation is still owed.
InFlight(p) == pc[p] \in {"query", "counted", "write", "closing"}

\* C19: with a driver that answers every query and every close, each
\* operation called on a connected store invokes its continuation exactly
\* once: a call on a connected store never throws, the continuation of a
\* call in flight is eventually invoked, a completed call has invoked it
\* once, and it is never invoked a second time.
C19_CallbackExactlyOnce ==
    \A p \in Procs :
        /\ [](pc[p] = "thrown" => ~connected)
        /\ [](cb[p].n <= 1)
        /\ [](pc[p] = "done" <=> cb[p].n = 1)
        /\ [](InFlight(p) => cb[p].n = 0)
        /\ (InFlight(p) ~> (pc[p] = "done" /\ cb[p].n = 1))

\* C19 witness: a set went through both of its statements and a close was
\* answered; each continuation has been invoked once.
C19_Witness ==
    \E p, q \in Procs :
        /\ pc[p] = "done" /\ call[p].op = "set" /\ call[p].nq = 2 /\ cb[p].n = 1
        /\ pc[q] = "done" /\ call[q].op = "close"
        /\ call[q].log = <<"close", "disconnect", "fn">> /\ cb[q].n = 1

====
